---- MODULE Spec2Model ----
(***************************************************************************)
(* A model of the AXP192 power-management driver (src/axp192.py).          *)
(*                                                                         *)
(* The device is a register file of 8-bit registers reached over I2C.      *)
(* Every driver operation is a sequence of bus transactions; an operation  *)
(* is modelled by the effect of its whole sequence on the register file,   *)
(* together with the list of register writes it issued.  Voltages are      *)
(* integers in millivolts.                                                 *)
(***************************************************************************)
EXTENDS Integers, Sequences, FiniteSets, TLC

VARIABLES
    regs,       \* the device's register file: address -> byte
    pre,        \* the register file as it was before the last operation
    op,         \* the last operation: [name, num, arg, prev], prev the name
                \* and the returned value of the operation before it
    ret,        \* its outcome: [err, val]
    log,        \* the register writes it issued, in order: <<address, value>>
    nops,       \* operations performed so far
    threads     \* per thread: the read-modify-write call in progress

vars == <<regs, pre, op, ret, log, nops, threads>>

(***************************************************************************)
(* Register addresses and bit masks.                                       *)
(***************************************************************************)
_AXP192_DCDC13_LDO23_CTRL == \h12
_AXP192_DCDC13_LDO23_CTRL_EXTEN == \h40
_AXP192_DCDC13_LDO23_CTRL_DCDC2 == \h10
_AXP192_DCDC13_LDO23_CTRL_LDO3 == \h08
_AXP192_DCDC13_LDO23_CTRL_LDO2 == \h04
_AXP192_DCDC13_LDO23_CTRL_DCDC3 == \h02
_AXP192_DCDC13_LDO23_CTRL_DCDC1 == \h01
_AXP192_DCDC2_OUT_VOLTAGE == \h25
_AXP192_DCDC1_OUT_VOLTAGE == \h26
_AXP192_DCDC3_OUT_VOLTAGE == \h27
_AXP192_LDO23_OUT_VOLTAGE == \h28
_AXP192_POWER_OFF_VOLTAGE == \h31
_AXP192_CHARGING_CTRL1 == \h33
_AXP192_CHARGING_CTRL1_ENABLE == \h80
_AXP192_IRQ_3_STATUS == \h46
_AXP192_IRQ_3_STATUS_PEK_SHORT_PRESS == \h02
_AXP192_IRQ_3_STATUS_PEK_LONG_PRESS == \h01
_AXP192_GPIO0_FUNCTION == \h90
_AXP192_GPIO1_FUNCTION == \h92
_AXP192_GPIO2_FUNCTION == \h93
_AXP192_GPIO34_FUNCTION == \h95
_AXP192_GPIO0_LDO_VOLTAGE == \h91
_AXP192_PWM1_DUTY_RATIO_Y1 == \h99
_AXP192_PWM2_DUTY_RATIO_Y1 == \h9C
\* The ADC registers the battery estimate reads (two bytes each).
BATTERY_VOLTAGE_REG == \h78
BATTERY_CHARGE_CURRENT_REG == \h7A

\* The registers the model keeps.
Addrs ==
    { _AXP192_DCDC13_LDO23_CTRL, _AXP192_DCDC2_OUT_VOLTAGE,
      _AXP192_DCDC1_OUT_VOLTAGE, _AXP192_DCDC3_OUT_VOLTAGE,
      _AXP192_LDO23_OUT_VOLTAGE, _AXP192_POWER_OFF_VOLTAGE,
      _AXP192_CHARGING_CTRL1, _AXP192_IRQ_3_STATUS,
      _AXP192_GPIO0_FUNCTION, _AXP192_GPIO1_FUNCTION, _AXP192_GPIO2_FUNCTION,
      _AXP192_GPIO34_FUNCTION, _AXP192_GPIO0_LDO_VOLTAGE,
      _AXP192_PWM1_DUTY_RATIO_Y1, _AXP192_PWM1_DUTY_RATIO_Y1 + 1,
      _AXP192_PWM2_DUTY_RATIO_Y1, _AXP192_PWM2_DUTY_RATIO_Y1 + 1,
      BATTERY_VOLTAGE_REG, BATTERY_VOLTAGE_REG + 1,
      BATTERY_CHARGE_CURRENT_REG, BATTERY_CHARGE_CURRENT_REG + 1 }

Byte == 0..255

(***************************************************************************)
(* Python's integer bit operators.  Integers are unbounded; ~x is -x-1,    *)
(* and a & b with b negative keeps the bits of a that -b-1 lacks.          *)
(***************************************************************************)
RECURSIVE BitAndNat(_, _)
BitAndNat(a, b) ==
    IF a = 0 \/ b = 0 THEN 0
    ELSE (a % 2) * (b % 2) + 2 * BitAndNat(a \div 2, b \div 2)

BitNot(x) == -x - 1

BitAnd(a, b) == IF b < 0 THEN a - BitAndNat(a, BitNot(b)) ELSE BitAndNat(a, b)

BitOr(a, b) == a + b - BitAndNat(a, b)

RECURSIVE Pow2(_)
Pow2(n) == IF n = 0 THEN 1 ELSE 2 * Pow2(n - 1)

Shl(a, n) == a * Pow2(n)

Shr(a, n) == a \div Pow2(n)

(***************************************************************************)
(* The bus.  An operation threads a bus state [regs, log, err] through its *)
(* transactions; once an exception is raised (err) nothing more happens.   *)
(***************************************************************************)
NoError == "none"
ValueError == "ValueError"
ZeroDivisionError == "ZeroDivisionError"

Bus(r) == [regs |-> r, log |-> <<>>, err |-> NoError]

Raise(b, e) == IF b.err = NoError THEN [b EXCEPT !.err = e] ELSE b

\* What a register holds after the device receives a write of v.  The IRQ
\* status register is write-1-to-clear: the bits written as 1 are cleared.
DeviceStore(r, register, v) ==
    IF register = _AXP192_IRQ_3_STATUS
    THEN [r EXCEPT ![register] = BitAnd(r[register], BitNot(v))]
    ELSE [r EXCEPT ![register] = v]

\* out_buf[1] = value raises ValueError unless value is a byte.
_write_register8(b, register, value) ==
    IF b.err # NoError THEN b
    ELSE IF value \notin Byte THEN Raise(b, ValueError)
    ELSE [b EXCEPT !.regs = DeviceStore(b.regs, register, value),
                   !.log = Append(b.log, <<register, value>>)]

_read_register8(b, register) == b.regs[register]

\* Mutant: the first byte is shifted by a whole byte, in_buf[0] << 8 | in_buf[1].
Mutant_read_register12_shift8(b, register) ==
    BitOr(Shl(b.regs[register], 8), b.regs[register + 1])

\* in_buf[0] << 4 | in_buf[1]
_read_register12(b, register) ==
    BitOr(Shl(b.regs[register], 4), b.regs[register + 1])

\* Mutant: the bitmask is written without the value read (val | bitmask
\* lost its left operand).
Mutant_set_bit_overwrites(b, register, bitmask) ==
    _write_register8(b, register, bitmask)

_set_bit_in_register(b, register, bitmask) ==
    _write_register8(b, register, BitOr(_read_register8(b, register), bitmask))

\* Mutant: the mask is not inverted (val & bitmask).
Mutant_clear_bit_not_inverted(b, register, bitmask) ==
    _write_register8(b, register,
                     BitAnd(_read_register8(b, register), bitmask))

_clear_bit_in_register(b, register, bitmask) ==
    _write_register8(b, register,
                     BitAnd(_read_register8(b, register), BitNot(bitmask)))

(***************************************************************************)
(* Floating point.  A requested voltage v is a float; the setters subtract *)
(* the rail's base and scale the difference before truncating it with      *)
(* int().  With v a whole number of millivolts the exact scaled difference *)
(* d is a whole number, and the float result lies within a rounding error  *)
(* of d: int() yields d, or d - 1 when the error falls below d.  d = 0 is  *)
(* exact (the same float subtracted from itself).  loss is that error.     *)
(***************************************************************************)
FloatLoss == {0, 1}

IntOfFloat(d, loss) == IF d = 0 THEN 0 ELSE d - loss

Min(a, b) == IF a < b THEN a ELSE b

(***************************************************************************)
(* Voltage rails: DCDC1..3 and LDO2..3.                                    *)
(***************************************************************************)
\* (enable_bit, voltage_reg, max_value)
__get_dcdcx_registers(num) ==
    CASE num = 1 -> <<_AXP192_DCDC13_LDO23_CTRL_DCDC1, _AXP192_DCDC1_OUT_VOLTAGE, \h7F>>
      [] num = 2 -> <<_AXP192_DCDC13_LDO23_CTRL_DCDC2, _AXP192_DCDC2_OUT_VOLTAGE, \h3F>>
      [] num = 3 -> <<_AXP192_DCDC13_LDO23_CTRL_DCDC3, _AXP192_DCDC3_OUT_VOLTAGE, \h7F>>

\* The setpoint read back, in millivolts; 0 when the rail is disabled.
__read_dcdcx_setpoint(r, num) ==
    LET t == __get_dcdcx_registers(num)
        enable_bit == t[1]
        voltage_reg == t[2]
        max_value == t[3]
    IN  IF BitAnd(r[_AXP192_DCDC13_LDO23_CTRL], enable_bit) = 0 THEN 0
        ELSE BitAnd(r[voltage_reg], max_value) * 25 + 700

\* Mutant: the enable bit is set before the code is written.
Mutant_write_dcdcx_enable_first(b, num, voltage, loss) ==
    LET t == __get_dcdcx_registers(num)
        enable_bit == t[1]
        voltage_reg == t[2]
        max_value == t[3]
        d == voltage - 700
    IN  IF d <= 0
        THEN _clear_bit_in_register(b, _AXP192_DCDC13_LDO23_CTRL, enable_bit)
        ELSE LET reg_value == Min(IntOfFloat(d, loss) \div 25, max_value)
             IN  _write_register8(
                     _set_bit_in_register(b, _AXP192_DCDC13_LDO23_CTRL, enable_bit),
                     voltage_reg, reg_value)

\* Mutant: the code is written without clamping it to max_value.
Mutant_write_dcdcx_no_clamp(b, num, voltage, loss) ==
    LET t == __get_dcdcx_registers(num)
        enable_bit == t[1]
        voltage_reg == t[2]
        d == voltage - 700
    IN  IF d <= 0
        THEN _clear_bit_in_register(b, _AXP192_DCDC13_LDO23_CTRL, enable_bit)
        ELSE LET reg_value == IntOfFloat(d, loss) \div 25
             IN  _set_bit_in_register(
                     _write_register8(b, voltage_reg, reg_value),
                     _AXP192_DCDC13_LDO23_CTRL, enable_bit)

\* voltage in millivolts.
__write_dcdcx_setpoint(b, num, voltage, loss) ==
    LET t == __get_dcdcx_registers(num)
        enable_bit == t[1]
        voltage_reg == t[2]
        max_value == t[3]
        d == voltage - 700
    IN  IF d <= 0
        THEN _clear_bit_in_register(b, _AXP192_DCDC13_LDO23_CTRL, enable_bit)
        ELSE LET reg_value == Min(IntOfFloat(d, loss) \div 25, max_value)
             IN  _set_bit_in_register(
                     _write_register8(b, voltage_reg, reg_value),
                     _AXP192_DCDC13_LDO23_CTRL, enable_bit)

\* (enable_bit, value_offset)
__get_ldo23_registers(num) ==
    CASE num = 2 -> <<_AXP192_DCDC13_LDO23_CTRL_LDO2, 4>>
      [] num = 3 -> <<_AXP192_DCDC13_LDO23_CTRL_LDO3, 0>>

__read_ldo23_setpoint(r, num) ==
    LET t == __get_ldo23_registers(num)
        enable_bit == t[1]
        value_offset == t[2]
    IN  IF BitAnd(r[_AXP192_DCDC13_LDO23_CTRL], enable_bit) = 0 THEN 0
        ELSE BitAnd(Shr(r[_AXP192_LDO23_OUT_VOLTAGE], value_offset), \h0F) * 100
             + 1800

\* Mutant: the shifted code is written without merging the sibling nibble.
Mutant_write_ldo23_no_merge(b, num, voltage, loss) ==
    LET t == __get_ldo23_registers(num)
        enable_bit == t[1]
        value_offset == t[2]
        d == voltage - 1800
    IN  IF d < 0
        THEN _clear_bit_in_register(b, _AXP192_DCDC13_LDO23_CTRL, enable_bit)
        ELSE LET code == Min(\h0F, IntOfFloat(d, loss) \div 100)
                 shifted == Shl(code, value_offset)
             IN  _set_bit_in_register(
                     _write_register8(b, _AXP192_LDO23_OUT_VOLTAGE, shifted),
                     _AXP192_DCDC13_LDO23_CTRL, enable_bit)

__write_ldo23_setpoint(b, num, voltage, loss) ==
    LET t == __get_ldo23_registers(num)
        enable_bit == t[1]
        value_offset == t[2]
        d == voltage - 1800
    IN  IF d < 0
        THEN _clear_bit_in_register(b, _AXP192_DCDC13_LDO23_CTRL, enable_bit)
        ELSE LET code == Min(\h0F, IntOfFloat(d, loss) \div 100)
                 shifted == Shl(code, value_offset)
                 mask == BitNot(Shl(\h0F, value_offset))
                 reg_val == BitOr(BitAnd(_read_register8(b, _AXP192_LDO23_OUT_VOLTAGE),
                                         mask), shifted)
             IN  _set_bit_in_register(
                     _write_register8(b, _AXP192_LDO23_OUT_VOLTAGE, reg_val),
                     _AXP192_DCDC13_LDO23_CTRL, enable_bit)

\* The _exten property setter; value is a boolean.
_exten_setter(b, value) ==
    IF value \notin BOOLEAN THEN Raise(b, ValueError)
    ELSE IF value
    THEN _set_bit_in_register(b, _AXP192_DCDC13_LDO23_CTRL,
                              _AXP192_DCDC13_LDO23_CTRL_EXTEN)
    ELSE _clear_bit_in_register(b, _AXP192_DCDC13_LDO23_CTRL,
                                _AXP192_DCDC13_LDO23_CTRL_EXTEN)

_exten(r) ==
    BitAnd(r[_AXP192_DCDC13_LDO23_CTRL], _AXP192_DCDC13_LDO23_CTRL_EXTEN) # 0

(***************************************************************************)
(* Operations as steps.  Done records a completed call: the register file  *)
(* it leaves, the one it found, its arguments, outcome and writes.         *)
(***************************************************************************)
NoValue == <<>>

Done(name, num, arg, b, val) ==
    /\ regs' = b.regs
    /\ pre' = regs
    /\ op' = [name |-> name, num |-> num, arg |-> arg,
              prev |-> [name |-> op.name, val |-> ret.val]]
    /\ ret' = [err |-> b.err, val |-> val]
    /\ log' = b.log
    /\ nops' = nops + 1
    /\ UNCHANGED threads

ZeroRegs == [a \in Addrs |-> 0]

NoThreads == <<>>

StartWith(r, th) ==
    /\ regs = r
    /\ pre = r
    /\ op = [name |-> "init", num |-> 0, arg |-> 0,
             prev |-> [name |-> "init", val |-> NoValue]]
    /\ ret = [err |-> NoError, val |-> NoValue]
    /\ log = <<>>
    /\ nops = 0
    /\ threads = th

Start(r) == StartWith(r, NoThreads)

(***************************************************************************)
(* Rails: the setpoint setters in any order, from a device whose enable    *)
(* register and voltage codes hold earlier contents.                       *)
(***************************************************************************)
MaxRailOps == 2

\* Requested voltages, in millivolts: off, around the base, on and next to
\* a step, at and above the top of the range.
DcdcTop(num) == 700 + 25 * __get_dcdcx_registers(num)[3]

\* The top of the range the setpoint's documentation gives.
DcdcDocTop(num) == IF num = 2 THEN 2275 ELSE 3500

DcdcVolts(num) ==
    {0, 699, 700, 724, 725, 1025, DcdcDocTop(num), DcdcTop(num),
     DcdcTop(num) + 25, 5000}

LdoVolts == {0, 1799, 1800, 1801, 1900, 2500, 3300, 3301, 5000}

\* Earlier contents of the DCDC code registers and of the LDO2/3 register.
StaleCodes == { <<\h00, \h00>>, <<\hFF, \hA5>>, <<\hFF, \h5A>>, <<\h00, \hFF>> }

RailInit ==
    { [ZeroRegs EXCEPT ![_AXP192_DCDC13_LDO23_CTRL] = c,
                       ![_AXP192_DCDC1_OUT_VOLTAGE] = s[1],
                       ![_AXP192_DCDC2_OUT_VOLTAGE] = s[1],
                       ![_AXP192_DCDC3_OUT_VOLTAGE] = s[1],
                       ![_AXP192_LDO23_OUT_VOLTAGE] = s[2]] :
        c \in {\h00, \h5F, \hFF}, s \in StaleCodes }

InitRail == \E r \in RailInit : Start(r)

SetDcdcSetpoint ==
    \E num \in 1..3 : \E voltage \in DcdcVolts(num) : \E loss \in FloatLoss :
        /\ nops < MaxRailOps
        /\ Done("dcdc_setpoint", num, voltage,
                __write_dcdcx_setpoint(Bus(regs), num, voltage, loss), NoValue)

SetLdoSetpoint ==
    \E num \in 2..3 : \E voltage \in LdoVolts : \E loss \in FloatLoss :
        /\ nops < MaxRailOps
        /\ Done("ldo_setpoint", num, voltage,
                __write_ldo23_setpoint(Bus(regs), num, voltage, loss), NoValue)

SetExten ==
    \E value \in BOOLEAN :
        /\ nops < MaxRailOps
        /\ Done("exten", 0, value, _exten_setter(Bus(regs), value), NoValue)

NextRail == SetDcdcSetpoint \/ SetLdoSetpoint \/ SetExten

SpecRail == InitRail /\ [][NextRail]_vars

(***************************************************************************)
(* Claims about the rails.                                                 *)
(***************************************************************************)
Abs(x) == IF x < 0 THEN -x ELSE x

IsDcdcSet == op.name = "dcdc_setpoint"

IsLdoSet == op.name = "ldo_setpoint"

\* C1: Rail round trip.  Setting a rail to a voltage v of its supported
\* range (DCDC1/3 0.7..3.5 V, DCDC2 0.7..2.275 V, LDO2/3 1.8..3.3 V, the
\* lower end included) and reading it back returns v to within one step
\* (25 mV for a DCDC, 100 mV for an LDO).  The float rounding of the setter
\* is granted: a read-back a full step below v still counts as within.
C1_RailRoundTrip ==
    /\ (IsDcdcSet /\ op.arg \in 700..DcdcDocTop(op.num))
          => Abs(__read_dcdcx_setpoint(regs, op.num) - op.arg) <= 25
    /\ (IsLdoSet /\ op.arg \in 1800..3300)
          => Abs(__read_ldo23_setpoint(regs, op.num) - op.arg) <= 100

EnableBit(kind, num) ==
    IF kind = "dcdc" THEN __get_dcdcx_registers(num)[1]
    ELSE __get_ldo23_registers(num)[1]

RailEnabled(r, kind, num) ==
    BitAndNat(r[_AXP192_DCDC13_LDO23_CTRL], EnableBit(kind, num)) # 0

\* C2: Disable sentinel.  After a rail's setpoint is set to 0 its enable
\* bit in register 0x12 is clear, whatever the registers held before; and a
\* rail whose enable bit is clear reads back as 0 whatever its voltage-code
\* field holds.
C2_DisableSentinel ==
    /\ (IsDcdcSet /\ op.arg = 0) => ~RailEnabled(regs, "dcdc", op.num)
    /\ (IsLdoSet /\ op.arg = 0) => ~RailEnabled(regs, "ldo", op.num)
    /\ \A num \in 1..3 :
          ~RailEnabled(regs, "dcdc", num) => __read_dcdcx_setpoint(regs, num) = 0
    /\ \A num \in 2..3 :
          ~RailEnabled(regs, "ldo", num) => __read_ldo23_setpoint(regs, num) = 0

\* A rail that was enabled is set to 0 and keeps a stale non-zero code.
C2_Witness ==
    /\ IsDcdcSet /\ op.arg = 0 /\ op.num = 2
    /\ RailEnabled(pre, "dcdc", 2)
    /\ regs[_AXP192_DCDC2_OUT_VOLTAGE] # 0
    /\ __read_dcdcx_setpoint(regs, 2) = 0

LowNibble(x) == x % 16

HighNibble(x) == (x \div 16) % 16

\* C3: LDO field isolation.  Setting the LDO2 setpoint leaves the low
\* nibble of register 0x28 (LDO3's code) as it was, setting the LDO3
\* setpoint leaves the high nibble (LDO2's code) as it was, and every value
\* written to 0x28 is a byte: the write is never refused.
C3_LdoFieldIsolation ==
    IsLdoSet =>
        /\ ret.err = NoError
        /\ op.num = 2 => LowNibble(regs[_AXP192_LDO23_OUT_VOLTAGE])
                          = LowNibble(pre[_AXP192_LDO23_OUT_VOLTAGE])
        /\ op.num = 3 => HighNibble(regs[_AXP192_LDO23_OUT_VOLTAGE])
                          = HighNibble(pre[_AXP192_LDO23_OUT_VOLTAGE])
        /\ \A i \in 1..Len(log) :
              log[i][1] = _AXP192_LDO23_OUT_VOLTAGE => log[i][2] \in Byte

\* LDO2 gets a new code while LDO3's nibble holds a non-zero code.
C3_Witness ==
    /\ IsLdoSet /\ op.num = 2 /\ op.arg = 2500
    /\ LowNibble(pre[_AXP192_LDO23_OUT_VOLTAGE]) = 5
    /\ HighNibble(pre[_AXP192_LDO23_OUT_VOLTAGE]) # HighNibble(regs[_AXP192_LDO23_OUT_VOLTAGE])
    /\ Len(log) = 2

(***************************************************************************)
(* GPIO function multiplexer.  Arguments that the code type-checks are     *)
(* Python values [type, v]: an int, a float (v its whole value, or its     *)
(* millivolts for a voltage) or a str.                                     *)
(***************************************************************************)
PyInt(n) == [type |-> "int", v |-> n]

PyFloat(n) == [type |-> "float", v |-> n]

PyStr == [type |-> "str", v |-> 0]

__validate_gpio_num(b, gpio_num) ==
    IF gpio_num.type # "int" \/ gpio_num.v < 0 \/ gpio_num.v > 4
    THEN Raise(b, ValueError)
    ELSE b

\* Mutant: GPIO3's field is written without masking the rest of the register.
Mutant_set_gpio_function_no_mask(b, gpio_num, function) ==
    CASE gpio_num = 0 ->
            _write_register8(b, _AXP192_GPIO0_FUNCTION, BitAnd(function, \h07))
      [] gpio_num = 1 ->
            _write_register8(b, _AXP192_GPIO1_FUNCTION, BitAnd(function, \h07))
      [] gpio_num = 2 ->
            _write_register8(b, _AXP192_GPIO2_FUNCTION, BitAnd(function, \h07))
      [] gpio_num = 3 ->
            _write_register8(b, _AXP192_GPIO34_FUNCTION, BitAnd(function, \h03))
      [] gpio_num = 4 ->
            LET reg_val == _read_register8(b, _AXP192_GPIO34_FUNCTION)
                cleared == BitAnd(reg_val, BitNot(\h0C))
            IN  _write_register8(b, _AXP192_GPIO34_FUNCTION,
                                 BitOr(cleared, Shl(BitAnd(function, \h03), 2)))
      [] OTHER -> Raise(b, ValueError)

\* Mutant: on pins 0..2 the code is ORed into the register's current value.
Mutant_set_gpio_function_or_in(b, gpio_num, function) ==
    CASE gpio_num = 0 ->
            _write_register8(b, _AXP192_GPIO0_FUNCTION,
                             BitOr(_read_register8(b, _AXP192_GPIO0_FUNCTION),
                                   BitAnd(function, \h07)))
      [] gpio_num = 1 ->
            _write_register8(b, _AXP192_GPIO1_FUNCTION,
                             BitOr(_read_register8(b, _AXP192_GPIO1_FUNCTION),
                                   BitAnd(function, \h07)))
      [] gpio_num = 2 ->
            _write_register8(b, _AXP192_GPIO2_FUNCTION,
                             BitOr(_read_register8(b, _AXP192_GPIO2_FUNCTION),
                                   BitAnd(function, \h07)))
      [] gpio_num = 3 ->
            LET reg_val == _read_register8(b, _AXP192_GPIO34_FUNCTION)
                cleared == BitAnd(reg_val, BitNot(\h03))
            IN  _write_register8(b, _AXP192_GPIO34_FUNCTION,
                                 BitOr(cleared, BitAnd(function, \h03)))
      [] gpio_num = 4 ->
            LET reg_val == _read_register8(b, _AXP192_GPIO34_FUNCTION)
                cleared == BitAnd(reg_val, BitNot(\h0C))
            IN  _write_register8(b, _AXP192_GPIO34_FUNCTION,
                                 BitOr(cleared, Shl(BitAnd(function, \h03), 2)))
      [] OTHER -> Raise(b, ValueError)

\* gpio_num and function are plain ints here.
__set_gpio_function(b, gpio_num, function) ==
    CASE gpio_num = 0 ->
            _write_register8(b, _AXP192_GPIO0_FUNCTION, BitAnd(function, \h07))
      [] gpio_num = 1 ->
            _write_register8(b, _AXP192_GPIO1_FUNCTION, BitAnd(function, \h07))
      [] gpio_num = 2 ->
            _write_register8(b, _AXP192_GPIO2_FUNCTION, BitAnd(function, \h07))
      [] gpio_num = 3 ->
            LET reg_val == _read_register8(b, _AXP192_GPIO34_FUNCTION)
                cleared == BitAnd(reg_val, BitNot(\h03))
            IN  _write_register8(b, _AXP192_GPIO34_FUNCTION,
                                 BitOr(cleared, BitAnd(function, \h03)))
      [] gpio_num = 4 ->
            LET reg_val == _read_register8(b, _AXP192_GPIO34_FUNCTION)
                cleared == BitAnd(reg_val, BitNot(\h0C))
            IN  _write_register8(b, _AXP192_GPIO34_FUNCTION,
                                 BitOr(cleared, Shl(BitAnd(function, \h03), 2)))
      [] OTHER -> Raise(b, ValueError)

\* A getter's outcome: [err, val].
Returns(v) == [err |-> NoError, val |-> v]

Raises(e) == [err |-> e, val |-> NoValue]

__get_gpio_function(r, gpio_num) ==
    CASE gpio_num = 0 -> Returns(BitAnd(r[_AXP192_GPIO0_FUNCTION], \h07))
      [] gpio_num = 1 -> Returns(BitAnd(r[_AXP192_GPIO1_FUNCTION], \h07))
      [] gpio_num = 2 -> Returns(BitAnd(r[_AXP192_GPIO2_FUNCTION], \h07))
      [] gpio_num = 3 -> Returns(BitAnd(r[_AXP192_GPIO34_FUNCTION], \h03))
      [] gpio_num = 4 -> Returns(BitAnd(Shr(r[_AXP192_GPIO34_FUNCTION], 2), \h03))
      [] OTHER -> Raises(ValueError)

_set_gpio_floating(b, gpio_num) ==
    LET b1 == __validate_gpio_num(b, gpio_num)
    IN  IF b1.err # NoError THEN b1
        ELSE IF 0 <= gpio_num.v /\ gpio_num.v <= 2
        THEN __set_gpio_function(b1, gpio_num.v, \h7)
        ELSE Raise(b1, ValueError)

_set_gpio_output_low(b, gpio_num) ==
    LET b1 == __validate_gpio_num(b, gpio_num)
    IN  IF b1.err # NoError THEN b1
        ELSE IF 0 <= gpio_num.v /\ gpio_num.v <= 2
        THEN __set_gpio_function(b1, gpio_num.v, \h5)
        ELSE Raise(b1, ValueError)

\* voltage.v in millivolts.
_set_gpio_ldo_voltage_out(b, gpio_num, voltage, loss) ==
    LET b1 == __validate_gpio_num(b, gpio_num)
    IN  IF b1.err # NoError THEN b1
        ELSE IF gpio_num.v = 0
        THEN IF voltage.type \in {"int", "float"}
             THEN LET d == voltage.v - 1800
                  IN  IF d <= 0 THEN _set_gpio_output_low(b1, gpio_num)
                      ELSE LET reg_val == Min(\h0F, IntOfFloat(d, loss) \div 100)
                           IN  __set_gpio_function(
                                   _write_register8(b1, _AXP192_GPIO0_LDO_VOLTAGE,
                                                    Shl(reg_val, 4)),
                                   gpio_num.v, \h2)
             ELSE Raise(b1, ValueError)
        ELSE Raise(b1, ValueError)

PwmReg(gpio_num) ==
    IF gpio_num.v = 1 THEN _AXP192_PWM1_DUTY_RATIO_Y1 ELSE _AXP192_PWM2_DUTY_RATIO_Y1

\* Mutant: the duty is written to the prescaler register and the prescaler
\* to the duty register.
Mutant_set_gpio_pwm_out_swapped(b, gpio_num, duty_cycle) ==
    LET b1 == __validate_gpio_num(b, gpio_num)
    IN  IF b1.err # NoError THEN b1
        ELSE IF 1 <= gpio_num.v /\ gpio_num.v <= 2
        THEN IF duty_cycle.type = "int"
             THEN IF 0 <= duty_cycle.v /\ duty_cycle.v <= 255
                  THEN LET pwm_reg == PwmReg(gpio_num)
                           b2 == _write_register8(b1, pwm_reg, duty_cycle.v)
                           b3 == _write_register8(b2, pwm_reg + 1, \hFF)
                       IN  __set_gpio_function(b3, gpio_num.v, \h02)
                  ELSE Raise(b1, ValueError)
             ELSE Raise(b1, ValueError)
        ELSE Raise(b1, ValueError)

\* Mutant: the prescaler is written before the duty cycle is range-checked.
Mutant_set_gpio_pwm_out_late_check(b, gpio_num, duty_cycle) ==
    LET b1 == __validate_gpio_num(b, gpio_num)
    IN  IF b1.err # NoError THEN b1
        ELSE IF 1 <= gpio_num.v /\ gpio_num.v <= 2
        THEN IF duty_cycle.type = "int"
             THEN LET pwm_reg == PwmReg(gpio_num)
                      b2 == _write_register8(b1, pwm_reg, \hFF)
                  IN  IF 0 <= duty_cycle.v /\ duty_cycle.v <= 255
                      THEN __set_gpio_function(
                               _write_register8(b2, pwm_reg + 1, duty_cycle.v),
                               gpio_num.v, \h02)
                      ELSE Raise(b2, ValueError)
             ELSE Raise(b1, ValueError)
        ELSE Raise(b1, ValueError)

_set_gpio_pwm_out(b, gpio_num, duty_cycle) ==
    LET b1 == __validate_gpio_num(b, gpio_num)
    IN  IF b1.err # NoError THEN b1
        ELSE IF 1 <= gpio_num.v /\ gpio_num.v <= 2
        THEN IF duty_cycle.type = "int"
             THEN IF 0 <= duty_cycle.v /\ duty_cycle.v <= 255
                  THEN LET pwm_reg == PwmReg(gpio_num)
                           b2 == _write_register8(b1, pwm_reg, \hFF)
                           b3 == _write_register8(b2, pwm_reg + 1, duty_cycle.v)
                       IN  __set_gpio_function(b3, gpio_num.v, \h02)
                  ELSE Raise(b1, ValueError)
             ELSE Raise(b1, ValueError)
        ELSE Raise(b1, ValueError)

_is_gpio_pwm_out(r, gpio_num) ==
    IF __validate_gpio_num(Bus(r), gpio_num).err # NoError THEN Raises(ValueError)
    ELSE IF 1 <= gpio_num.v /\ gpio_num.v <= 2
    THEN Returns(__get_gpio_function(r, gpio_num.v).val = \h02)
    ELSE Raises(ValueError)

\* The duty register is returned only inside the PWM-mode test; every other
\* path of a valid pin number runs into the final raise.
_get_gpio_pwm_out(r, gpio_num) ==
    IF __validate_gpio_num(Bus(r), gpio_num).err # NoError THEN Raises(ValueError)
    ELSE IF 1 <= gpio_num.v /\ gpio_num.v <= 2 /\ _is_gpio_pwm_out(r, gpio_num).val
    THEN Returns(r[PwmReg(gpio_num) + 1])
    ELSE Raises(ValueError)

(***************************************************************************)
(* GPIO: one mode-set call on a device whose function and PWM registers    *)
(* hold earlier contents.                                                  *)
(***************************************************************************)
MaxGpioOps == 1

GpioNums == {PyInt(n) : n \in -1..5} \cup {PyFloat(1)}

FunctionCodes == 0..7

Duties ==
    {PyInt(d) : d \in {x \in -1..256 : x % 16 \in {0, 1, 15}}}
        \cup {PyInt(256), PyFloat(128)}

\* Every duty on the PWM pins, one duty on every pin number.
PwmArgs ==
    {<<PyInt(n), d>> : n \in 1..2, d \in Duties}
        \cup {<<g, PyInt(100)>> : g \in GpioNums}

GpioLdoVolts ==
    {PyFloat(mv) : mv \in {0, 1799, 1800, 1801, 1900, 2500, 3300, 3301, 5000}}
        \cup {PyInt(3000), PyStr}

LdoOutArgs ==
    {<<PyInt(0), v>> : v \in GpioLdoVolts}
        \cup {<<g, PyFloat(3300)>> : g \in GpioNums}

\* Earlier contents: (GPIO0..2 function registers, GPIO3/4 function register,
\* PWM prescalers and GPIO0 LDO voltage, PWM duties).
GpioInit ==
    { [ZeroRegs EXCEPT ![_AXP192_GPIO0_FUNCTION] = f,
                       ![_AXP192_GPIO1_FUNCTION] = f,
                       ![_AXP192_GPIO2_FUNCTION] = f,
                       ![_AXP192_GPIO34_FUNCTION] = g,
                       ![_AXP192_GPIO0_LDO_VOLTAGE] = p[1],
                       ![_AXP192_PWM1_DUTY_RATIO_Y1] = p[1],
                       ![_AXP192_PWM2_DUTY_RATIO_Y1] = p[1],
                       ![_AXP192_PWM1_DUTY_RATIO_Y1 + 1] = p[2],
                       ![_AXP192_PWM2_DUTY_RATIO_Y1 + 1] = p[2]] :
        f \in {\h00, \h02, \hFD, \hFF},
        g \in {\h00, \h5A, \hA5, \hFF},
        p \in { <<\h00, \h00>>, <<\h12, \h34>> } }

InitGpio == \E r \in GpioInit : Start(r)

SetGpioFloating ==
    \E gpio_num \in GpioNums :
        /\ nops < MaxGpioOps
        /\ Done("_set_gpio_floating", gpio_num, 0,
                _set_gpio_floating(Bus(regs), gpio_num), NoValue)

SetGpioOutputLow ==
    \E gpio_num \in GpioNums :
        /\ nops < MaxGpioOps
        /\ Done("_set_gpio_output_low", gpio_num, 0,
                _set_gpio_output_low(Bus(regs), gpio_num), NoValue)

SetGpioLdoVoltageOut ==
    \E a \in LdoOutArgs : \E loss \in FloatLoss :
        /\ nops < MaxGpioOps
        /\ Done("_set_gpio_ldo_voltage_out", a[1], a[2],
                _set_gpio_ldo_voltage_out(Bus(regs), a[1], a[2], loss), NoValue)

SetGpioPwmOut ==
    \E a \in PwmArgs :
        /\ nops < MaxGpioOps
        /\ Done("_set_gpio_pwm_out", a[1], a[2],
                _set_gpio_pwm_out(Bus(regs), a[1], a[2]), NoValue)

\* The function-field write on its own, for every pin number it accepts
\* and one it does not.
SetGpioFunction ==
    \E gpio_num \in 0..5 : \E function \in FunctionCodes :
        /\ nops < MaxGpioOps
        /\ Done("__set_gpio_function", PyInt(gpio_num), function,
                __set_gpio_function(Bus(regs), gpio_num, function), NoValue)

NextGpio ==
    \/ SetGpioFloating
    \/ SetGpioOutputLow
    \/ SetGpioLdoVoltageOut
    \/ SetGpioPwmOut
    \/ SetGpioFunction

SpecGpio == InitGpio /\ [][NextGpio]_vars

(***************************************************************************)
(* Claims about the GPIOs.                                                 *)
(***************************************************************************)
Bits10(x) == x % 4

Bits32(x) == (x \div 4) % 4

Bits74(x) == x \div 16

IsSetFunction(n) == op.name = "__set_gpio_function" /\ op.num.v = n

\* C4: GPIO3/GPIO4 field isolation.  Writing the function of GPIO3 changes
\* only bits 1..0 of register 0x95 and writing the function of GPIO4 only
\* bits 3..2: the function read back for the sibling pin and bits 7..4 are
\* as before, and the pin's own field holds the function's low two bits.
C4_Gpio34FieldIsolation ==
    /\ IsSetFunction(3) =>
          /\ Bits32(regs[_AXP192_GPIO34_FUNCTION]) = Bits32(pre[_AXP192_GPIO34_FUNCTION])
          /\ Bits74(regs[_AXP192_GPIO34_FUNCTION]) = Bits74(pre[_AXP192_GPIO34_FUNCTION])
          /\ __get_gpio_function(regs, 4) = __get_gpio_function(pre, 4)
          /\ __get_gpio_function(regs, 3).val = op.arg % 4
    /\ IsSetFunction(4) =>
          /\ Bits10(regs[_AXP192_GPIO34_FUNCTION]) = Bits10(pre[_AXP192_GPIO34_FUNCTION])
          /\ Bits74(regs[_AXP192_GPIO34_FUNCTION]) = Bits74(pre[_AXP192_GPIO34_FUNCTION])
          /\ __get_gpio_function(regs, 3) = __get_gpio_function(pre, 3)
          /\ __get_gpio_function(regs, 4).val = op.arg % 4
    /\ (IsSetFunction(3) \/ IsSetFunction(4)) =>
          \A a \in Addrs \ {_AXP192_GPIO34_FUNCTION} : regs[a] = pre[a]

\* GPIO3's function changes while GPIO4's field and bits 7..4 are non-zero.
C4_Witness ==
    /\ IsSetFunction(3) /\ op.arg = 2
    /\ pre[_AXP192_GPIO34_FUNCTION] = \hA5
    /\ regs[_AXP192_GPIO34_FUNCTION] # pre[_AXP192_GPIO34_FUNCTION]
    /\ Bits32(regs[_AXP192_GPIO34_FUNCTION]) = 1

IsPwmSet == op.name = "_set_gpio_pwm_out"

PwmAccepted ==
    /\ IsPwmSet
    /\ op.num \in {PyInt(1), PyInt(2)}
    /\ op.arg.type = "int" /\ op.arg.v \in 0..255

\* C7: PWM duty round trip.  After PWM output is set on pin 1 or 2 with a
\* duty d in 0..255, reading the pin's PWM duty returns d, and the pin's
\* prescaler register (0x99, 0x9C) holds 0xFF.
C7_PwmRoundTrip ==
    /\ PwmAccepted =>
          /\ ret.err = NoError
          /\ _get_gpio_pwm_out(regs, op.num) = Returns(op.arg.v)
    /\ (IsPwmSet /\ ret.err = NoError) =>
          regs[IF op.num.v = 1 THEN \h99 ELSE \h9C] = \hFF

\* Pin 2 is set to duty 128 where the duty register held something else.
C7_Witness ==
    /\ IsPwmSet /\ op.num = PyInt(2) /\ op.arg = PyInt(128)
    /\ pre[\h9C] = \h12 /\ pre[\h9C + 1] = \h34
    /\ pre[_AXP192_GPIO2_FUNCTION] = \hFD
    /\ _get_gpio_pwm_out(regs, PyInt(2)) = Returns(128)

IsGpioModeSet ==
    op.name \in {"_set_gpio_floating", "_set_gpio_output_low",
                 "_set_gpio_ldo_voltage_out", "_set_gpio_pwm_out"}

InvalidGpioCall ==
    /\ IsGpioModeSet
    /\ op.num.type = "int"
    /\ \/ op.num.v \notin 0..4
       \/ op.name \in {"_set_gpio_floating", "_set_gpio_output_low"}
             /\ op.num.v \in 3..4
       \/ op.name = "_set_gpio_pwm_out" /\ op.num.v \in {0, 3, 4}
       \/ op.name = "_set_gpio_ldo_voltage_out" /\ op.num.v \in 1..4
       \/ op.name = "_set_gpio_pwm_out" /\ op.arg.type = "int"
             /\ op.arg.v \notin 0..255

\* C8: Invalid-argument rejection without side effect.  A GPIO set
\* operation called with a pin number outside 0..4, with a mode the pin does
\* not support (floating or low output on pins 3-4, PWM on pins 0, 3, 4,
\* LDO voltage output on pins 1-4) or with a PWM duty outside 0..255 raises
\* ValueError and issues no register write: every register is as before.
C8_InvalidArgumentRejected ==
    /\ InvalidGpioCall => ret.err = ValueError
    /\ (IsGpioModeSet /\ ret.err # NoError) => (log = <<>> /\ regs = pre)

\* A duty of 256 on a PWM pin is refused.
C8_Witness ==
    /\ IsPwmSet /\ op.num = PyInt(1) /\ op.arg = PyInt(256)
    /\ ret.err = ValueError /\ log = <<>>

(***************************************************************************)
(* Battery telemetry and the charge-level estimate.  Voltages are in units *)
(* of 0.1 mV and currents in units of 0.1 mA, so that every scale factor   *)
(* of the code is a whole number.                                          *)
(***************************************************************************)
\* 0.0011 * code volts
battery_voltage(r) == 11 * _read_register12(Bus(r), BATTERY_VOLTAGE_REG)

\* 0.5 * code milliamps
battery_charge_current(r) == 5 * _read_register12(Bus(r), BATTERY_CHARGE_CURRENT_REG)

\* 2.6 + 0.1 * code volts
battery_switch_off_voltage(r) ==
    26000 + 1000 * BitAnd(_read_register8(Bus(r), _AXP192_POWER_OFF_VOLTAGE), \h07)

\* Mutant: the field mask takes in the charging-enable bit 7.
Mutant_charge_target_wide_mask(r) ==
    LET reg_val == Shr(BitAnd(_read_register8(Bus(r), _AXP192_CHARGING_CTRL1), \hE0), 5)
    IN  CASE reg_val = 0 -> 41000
          [] reg_val = 1 -> 41500
          [] reg_val = 2 -> 42000
          [] OTHER -> 43600

\* The target in units of 0.1 mV: 4.1, 4.15, 4.2 or 4.36 volts.
battery_charge_target_voltage(r) ==
    LET reg_val == Shr(BitAnd(_read_register8(Bus(r), _AXP192_CHARGING_CTRL1), \h60), 5)
    IN  CASE reg_val = 0 -> 41000
          [] reg_val = 1 -> 41500
          [] reg_val = 2 -> 42000
          [] OTHER -> 43600

\* A level is the fraction num / den percent, den > 0.
Frac(n, d) == IF d < 0 THEN [num |-> -n, den |-> -d] ELSE [num |-> n, den |-> d]

\* min(100, max(0, level))
ClampLevel(level) ==
    IF level.num < 0 THEN [level EXCEPT !.num = 0]
    ELSE IF level.num > 100 * level.den THEN [level EXCEPT !.num = 100 * level.den]
    ELSE level

\* Mutant: only the upper clamp, min(100, level).
Mutant_battery_level_no_floor(r) ==
    LET bat_voltage == battery_voltage(r)
        bat_chg_current == battery_charge_current(r)
        vmin == battery_switch_off_voltage(r)
        vmax == battery_charge_target_voltage(r)
    IN  IF vmax - vmin = 0 THEN Raises(ZeroDivisionError)
        ELSE LET level == Frac((bat_voltage - vmin) * 100, vmax - vmin)
                 adjusted == IF bat_chg_current > 150
                             THEN [level EXCEPT !.num = @ - 10 * level.den]
                             ELSE level
             IN  Returns(IF adjusted.num > 100 * adjusted.den
                         THEN [adjusted EXCEPT !.num = 100 * adjusted.den]
                         ELSE adjusted)

battery_level(r) ==
    LET bat_voltage == battery_voltage(r)
        bat_chg_current == battery_charge_current(r)
        vmin == battery_switch_off_voltage(r)
        vmax == battery_charge_target_voltage(r)
    IN  IF vmax - vmin = 0 THEN Raises(ZeroDivisionError)
        ELSE LET level == Frac((bat_voltage - vmin) * 100, vmax - vmin)
                 adjusted == IF bat_chg_current > 150
                             THEN [level EXCEPT !.num = @ - 10 * level.den]
                             ELSE level
             IN  Returns(ClampLevel(adjusted))

\* A read leaves the device as it is and issues no write.
Read(name, num, result) ==
    /\ pre' = regs
    /\ op' = [name |-> name, num |-> num, arg |-> 0,
              prev |-> [name |-> op.name, val |-> ret.val]]
    /\ ret' = result
    /\ log' = <<>>
    /\ nops' = nops + 1
    /\ UNCHANGED <<regs, threads>>

MaxBatteryOps == 1

\* The two bytes of the battery-voltage ADC, of the charge-current ADC
\* (codes 0, 30, 31 and 4095: 15 mA is code 30), and the registers holding
\* the switch-off and charge-target codes among other bits.
BatteryInit ==
    { [ZeroRegs EXCEPT ![BATTERY_VOLTAGE_REG] = v0,
                       ![BATTERY_VOLTAGE_REG + 1] = v1,
                       ![BATTERY_CHARGE_CURRENT_REG] = c[1],
                       ![BATTERY_CHARGE_CURRENT_REG + 1] = c[2],
                       ![_AXP192_POWER_OFF_VOLTAGE] =
                            off + (IF off % 2 = 1 THEN \hF8 ELSE 0),
                       ![_AXP192_CHARGING_CTRL1] =
                            32 * tgt + (IF tgt % 2 = 0 THEN \h9F ELSE 0)] :
        v0 \in Byte, v1 \in {\h03, \h0F, \h23},
        c \in { <<0, 0>>, <<1, 14>>, <<1, 15>> },
        off \in 0..7, tgt \in 0..3 }

InitBattery == \E r \in BatteryInit : Start(r)

BatteryLevel ==
    /\ nops < MaxBatteryOps
    /\ Read("battery_level", 0, battery_level(regs))

ReadRegister12 ==
    \E register \in {BATTERY_VOLTAGE_REG, BATTERY_CHARGE_CURRENT_REG} :
        /\ nops < MaxBatteryOps
        /\ Read("_read_register12", register,
                Returns(_read_register12(Bus(regs), register)))

NextBattery == BatteryLevel \/ ReadRegister12

SpecBattery == InitBattery /\ [][NextBattery]_vars

\* C5: Battery level bounds.  For every battery-voltage code, charge-current
\* code, switch-off code and charge-target code, battery_level is defined
\* (vmax - vmin is not zero) and its result lies in [0, 100].
C5_BatteryLevelBounds ==
    op.name = "battery_level" =>
        /\ ret.err = NoError
        /\ battery_charge_target_voltage(regs) # battery_switch_off_voltage(regs)
        /\ ret.val.den > 0
        /\ 0 <= ret.val.num
        /\ ret.val.num <= 100 * ret.val.den

\* A level strictly between 0 and 100 while the battery is charging.
C5_Witness ==
    /\ op.name = "battery_level"
    /\ battery_charge_current(regs) > 150
    /\ 0 < ret.val.num /\ ret.val.num < 100 * ret.val.den
    /\ battery_voltage(regs) < battery_charge_target_voltage(regs)

Is12BitRead == op.name = "_read_register12"

Byte0 == regs[op.num]

Byte1 == regs[op.num + 1]

Combined12 ==
    /\ ret.err = NoError
    /\ ret.val \in 0..4095
    /\ ret.val \div 256 = Byte0 \div 16
    /\ ret.val % 16 = Byte1 % 16
    /\ ret.val >= 16 * Byte0 /\ ret.val >= Byte1
    /\ ret.val <= 16 * Byte0 + Byte1
    /\ Byte1 < 16 => ret.val = 16 * Byte0 + Byte1

\* C10 (as claimed): the 12-bit read combines its two bytes as
\* (byte0 << 4) | byte1, the result lies in 0..4095, and the byte pair
\* (0x01, 0x23) decodes to 0x123.
C10_Read12AsClaimed ==
    Is12BitRead =>
        /\ Combined12
        /\ (Byte0 = \h01 /\ Byte1 = \h23) => ret.val = \h123

\* C10 (amended): the 12-bit read combines its two bytes as
\* (byte0 << 4) | byte1, the result lies in 0..4095, and the byte pair
\* (0x01, 0x23) decodes to 0x33; 0x123 is what the pair (0x12, 0x03) decodes to.
C10_Read12Assembly ==
    Is12BitRead =>
        /\ Combined12
        /\ (Byte0 = \h01 /\ Byte1 = \h23) => ret.val = \h33
        /\ (Byte0 = \h12 /\ Byte1 = \h03) => ret.val = \h123

\* The literal byte pair is read.
C10_Witness ==
    /\ Is12BitRead /\ op.num = BATTERY_VOLTAGE_REG
    /\ Byte0 = \h01 /\ Byte1 = \h23
    /\ ret.val = \h33

(***************************************************************************)
(* The power key.  The device latches a short or a long press in the IRQ   *)
(* status register; the driver reads the latch and clears it.              *)
(***************************************************************************)
KeyBits(reg_val) ==
    << BitAnd(reg_val, _AXP192_IRQ_3_STATUS_PEK_SHORT_PRESS) # 0,
       BitAnd(reg_val, _AXP192_IRQ_3_STATUS_PEK_LONG_PRESS) # 0 >>

\* Mutant: the key bits are cleared in the value read and that is written
\* back, as for an ordinary register.
Mutant_power_key_writes_zeroes(b) ==
    LET reg_val == _read_register8(b, _AXP192_IRQ_3_STATUS)
        short_press == KeyBits(reg_val)[1]
        long_press == KeyBits(reg_val)[2]
    IN  IF short_press \/ long_press
        THEN _clear_bit_in_register(b, _AXP192_IRQ_3_STATUS,
                 BitOr(_AXP192_IRQ_3_STATUS_PEK_SHORT_PRESS,
                       _AXP192_IRQ_3_STATUS_PEK_LONG_PRESS))
        ELSE b

\* The bus state the call leaves; it returns KeyBits of the value it read.
power_key_was_pressed(b) ==
    LET reg_val == _read_register8(b, _AXP192_IRQ_3_STATUS)
        short_press == KeyBits(reg_val)[1]
        long_press == KeyBits(reg_val)[2]
    IN  IF short_press \/ long_press
        THEN _write_register8(b, _AXP192_IRQ_3_STATUS,
                 BitOr(_AXP192_IRQ_3_STATUS_PEK_SHORT_PRESS,
                       _AXP192_IRQ_3_STATUS_PEK_LONG_PRESS))
        ELSE b

MaxKeyOps == 3

InitKey ==
    \E s \in Byte : Start([ZeroRegs EXCEPT ![_AXP192_IRQ_3_STATUS] = s])

PowerKeyWasPressed ==
    /\ nops < MaxKeyOps
    /\ Done("power_key_was_pressed", 0, 0, power_key_was_pressed(Bus(regs)),
            KeyBits(regs[_AXP192_IRQ_3_STATUS]))

\* The device latches a press: short (2), long (1) or both.
KeyPress ==
    \E bits \in 1..3 :
        /\ nops < MaxKeyOps
        /\ regs' = [regs EXCEPT ![_AXP192_IRQ_3_STATUS] = BitOr(@, bits)]
        /\ pre' = regs
        /\ op' = [name |-> "key_press", num |-> 0, arg |-> bits,
                  prev |-> [name |-> op.name, val |-> ret.val]]
        /\ ret' = Returns(NoValue)
        /\ log' = <<>>
        /\ nops' = nops + 1
        /\ UNCHANGED threads

NextKey == PowerKeyWasPressed \/ KeyPress

SpecKey == InitKey /\ [][NextKey]_vars

IsKeyCall == op.name = "power_key_was_pressed"

Bit(x, n) == (x \div Pow2(n)) % 2 = 1

\* C6: Power-key latch-and-clear.  A call of power_key_was_pressed returns
\* (short, long) equal to bits 1 and 0 of register 0x46 as they were before
\* the call; if either was set it writes 0b00000011 to register 0x46 (and
\* that is its only write); and a call made right after another call, with
\* no press in between, returns (false, false).
C6_PowerKeyLatchAndClear ==
    IsKeyCall =>
        /\ ret.err = NoError
        /\ ret.val = << Bit(pre[\h46], 1), Bit(pre[\h46], 0) >>
        /\ (Bit(pre[\h46], 1) \/ Bit(pre[\h46], 0)) => log = << <<\h46, 3>> >>
        /\ op.prev.name = "power_key_was_pressed" => ret.val = <<FALSE, FALSE>>

\* Both bits latched: the first call returns (true, true), the second call
\* (false, false).
C6_Witness ==
    /\ IsKeyCall
    /\ op.prev.name = "power_key_was_pressed"
    /\ op.prev.val = <<TRUE, TRUE>>
    /\ ret.val = <<FALSE, FALSE>>

(***************************************************************************)
(* Two threads sharing the driver.  Each bus transaction holds the I2C     *)
(* lock (with self._device) and is one step; a read-modify-write call is   *)
(* two transactions, the read and the write.                               *)
(***************************************************************************)
Threads == 1..2

MaxCalls == 1

\* The calls a thread makes: (set, register, bitmask).
RmwCalls ==
    { [set |-> s, register |-> _AXP192_DCDC13_LDO23_CTRL, bitmask |-> m] :
        s \in BOOLEAN,
        m \in { _AXP192_DCDC13_LDO23_CTRL_DCDC1, _AXP192_DCDC13_LDO23_CTRL_LDO2,
                _AXP192_DCDC13_LDO23_CTRL_EXTEN } }
    \cup
    { [set |-> s, register |-> _AXP192_CHARGING_CTRL1,
       bitmask |-> _AXP192_CHARGING_CTRL1_ENABLE] : s \in BOOLEAN }

Idle == [pc |-> "idle", call |-> [set |-> TRUE, register |-> 0, bitmask |-> 0],
         val |-> 0, ncalls |-> 0]

InitConc ==
    \E c \in {\h00, \h5F}, g \in {\h00, \hC0} :
        StartWith([ZeroRegs EXCEPT ![_AXP192_DCDC13_LDO23_CTRL] = c,
                                   ![_AXP192_CHARGING_CTRL1] = g],
                  [t \in Threads |-> Idle])

\* val = self._read_register8(register)
RmwRead(t) ==
    \E c \in RmwCalls :
        /\ threads[t].pc = "idle"
        /\ threads[t].ncalls < MaxCalls
        /\ threads' = [threads EXCEPT ![t] =
               [pc |-> "read", call |-> c,
                val |-> _read_register8(Bus(regs), c.register),
                ncalls |-> @.ncalls]]
        /\ UNCHANGED <<regs, pre, op, ret, log, nops>>

\* self._write_register8(register, val | bitmask), or val & ~bitmask
RmwWrite(t) ==
    LET c == threads[t].call
        val == threads[t].val
        value == IF c.set THEN BitOr(val, c.bitmask)
                 ELSE BitAnd(val, BitNot(c.bitmask))
    IN  /\ threads[t].pc = "read"
        /\ regs' = _write_register8(Bus(regs), c.register, value).regs
        /\ threads' = [threads EXCEPT ![t].pc = "idle", ![t].ncalls = @ + 1]
        /\ UNCHANGED <<pre, op, ret, log, nops>>

NextConc == \E t \in Threads : RmwRead(t) \/ RmwWrite(t)

SpecConc == InitConc /\ [][NextConc]_vars

Applied(t) ==
    LET c == threads[t].call
    IN  BitAnd(regs[c.register], c.bitmask) = (IF c.set THEN c.bitmask ELSE 0)

\* C9: Read-modify-write atomicity.  When two threads each run one
\* _set_bit_in_register / _clear_bit_in_register call on the same register
\* with different bits, in any interleaving, the register afterwards shows
\* both updates: none is lost.
C9_NoLostUpdate ==
    ( /\ \A t \in Threads : threads[t].pc = "idle" /\ threads[t].ncalls = 1
      /\ threads[1].call.register = threads[2].call.register
      /\ threads[1].call.bitmask # threads[2].call.bitmask )
        => \A t \in Threads : Applied(t)

(***************************************************************************)
(* GPIO modes: the mode predicates and the getters of pins 0..2.           *)
(***************************************************************************)
\* Mutant: the floating test looks at bit 2 only.
Mutant_is_gpio_floating_bit2(r, gpio_num) ==
    IF __validate_gpio_num(Bus(r), gpio_num).err # NoError THEN Raises(ValueError)
    ELSE IF 0 <= gpio_num.v /\ gpio_num.v <= 2
    THEN Returns(BitAnd(__get_gpio_function(r, gpio_num.v).val, \h04) = \h04)
    ELSE Raises(ValueError)

_is_gpio_floating(r, gpio_num) ==
    IF __validate_gpio_num(Bus(r), gpio_num).err # NoError THEN Raises(ValueError)
    ELSE IF 0 <= gpio_num.v /\ gpio_num.v <= 2
    THEN Returns(BitAnd(__get_gpio_function(r, gpio_num.v).val, \h06) = \h06)
    ELSE Raises(ValueError)

_is_gpio_output_low(r, gpio_num) ==
    IF __validate_gpio_num(Bus(r), gpio_num).err # NoError THEN Raises(ValueError)
    ELSE IF 0 <= gpio_num.v /\ gpio_num.v <= 2
    THEN Returns(__get_gpio_function(r, gpio_num.v).val = \h05)
    ELSE Raises(ValueError)

_is_gpio_ldo_voltage_out(r, gpio_num) ==
    IF __validate_gpio_num(Bus(r), gpio_num).err # NoError THEN Raises(ValueError)
    ELSE IF gpio_num.v = 0
    THEN Returns(__get_gpio_function(r, gpio_num.v).val = \h02)
    ELSE Raises(ValueError)

\* The voltage read back, in millivolts (reg_value * 0.1 + 1.8 volts); the
\* mode test raises for every pin but pin 0, so the final raise of the code
\* is never reached.
_get_gpio_ldo_voltage_out(r, gpio_num) ==
    LET is_ldo == _is_gpio_ldo_voltage_out(r, gpio_num)
    IN  IF is_ldo.err # NoError THEN is_ldo
        ELSE IF ~is_ldo.val THEN Returns(0)
        ELSE IF gpio_num.v = 0
        THEN Returns(Shr(r[_AXP192_GPIO0_LDO_VOLTAGE], 4) * 100 + 1800)
        ELSE Raises(ValueError)

(***************************************************************************)
(* GPIO modes: mode-set calls on pins 0..2 in any order, and the getters,  *)
(* on a device whose function, LDO voltage and PWM registers hold earlier  *)
(* contents.                                                               *)
(***************************************************************************)
MaxModeOps == 3

ModePins == {PyInt(n) : n \in 0..2}

\* Requested GPIO0 voltages in millivolts, each with the rounding error of
\* (voltage - 1.8) / 0.1 in binary64: 1.9 - 1.8 is 0.0999999999999998..., so
\* the quotient of 1.9 V falls below 1 and int() yields 0; likewise 2.5, 3
\* and 3.3 V fall below 7, 12 and 15.  2.1 V, the requests off a step and the
\* requests at or below 1.8 V lose nothing.
Gpio0LdoLoss(mv) == IF mv \in {1900, 2500, 3000, 3300} THEN 1 ELSE 0

Gpio0LdoRequests ==
    { <<PyFloat(mv), Gpio0LdoLoss(mv)>> :
        mv \in {0, 1800, 1801, 1900, 2100, 2500, 3300, 3301, 5000} }
        \cup { <<PyInt(3000), Gpio0LdoLoss(3000)>> }

ModeDuties == {PyInt(0), PyInt(128), PyInt(255)}

ModeInit ==
    { [ZeroRegs EXCEPT ![_AXP192_GPIO0_FUNCTION] = f,
                       ![_AXP192_GPIO1_FUNCTION] = f,
                       ![_AXP192_GPIO2_FUNCTION] = f,
                       ![_AXP192_GPIO0_LDO_VOLTAGE] = BitAnd(f, \hF0),
                       ![_AXP192_PWM1_DUTY_RATIO_Y1] = f,
                       ![_AXP192_PWM2_DUTY_RATIO_Y1] = f,
                       ![_AXP192_PWM1_DUTY_RATIO_Y1 + 1] = BitAnd(f, \h3C),
                       ![_AXP192_PWM2_DUTY_RATIO_Y1 + 1] = BitAnd(f, \h3C)] :
        f \in {\h00, \h02, \hFD, \hFF} }

InitMode == \E r \in ModeInit : Start(r)

ModeFloating ==
    \E gpio_num \in ModePins :
        /\ nops < MaxModeOps
        /\ Done("_set_gpio_floating", gpio_num, 0,
                _set_gpio_floating(Bus(regs), gpio_num), NoValue)

ModeOutputLow ==
    \E gpio_num \in ModePins :
        /\ nops < MaxModeOps
        /\ Done("_set_gpio_output_low", gpio_num, 0,
                _set_gpio_output_low(Bus(regs), gpio_num), NoValue)

ModeLdoVoltageOut ==
    \E q \in Gpio0LdoRequests :
        /\ nops < MaxModeOps
        /\ Done("_set_gpio_ldo_voltage_out", PyInt(0), q[1],
                _set_gpio_ldo_voltage_out(Bus(regs), PyInt(0), q[1], q[2]),
                NoValue)

ModePwmOut ==
    \E gpio_num \in {PyInt(1), PyInt(2)} : \E duty_cycle \in ModeDuties :
        /\ nops < MaxModeOps
        /\ Done("_set_gpio_pwm_out", gpio_num, duty_cycle,
                _set_gpio_pwm_out(Bus(regs), gpio_num, duty_cycle), NoValue)

GetGpioPwmOut ==
    \E gpio_num \in ModePins :
        /\ nops < MaxModeOps
        /\ Read("_get_gpio_pwm_out", gpio_num, _get_gpio_pwm_out(regs, gpio_num))

GetGpioLdoVoltageOut ==
    \E gpio_num \in ModePins :
        /\ nops < MaxModeOps
        /\ Read("_get_gpio_ldo_voltage_out", gpio_num,
                _get_gpio_ldo_voltage_out(regs, gpio_num))

NextMode ==
    \/ ModeFloating
    \/ ModeOutputLow
    \/ ModeLdoVoltageOut
    \/ ModePwmOut
    \/ GetGpioPwmOut
    \/ GetGpioLdoVoltageOut

SpecMode == InitMode /\ [][NextMode]_vars

(***************************************************************************)
(* Claims about the GPIO modes.                                            *)
(***************************************************************************)
FunctionReg(p) ==
    CASE p = 0 -> \h90
      [] p = 1 -> \h92
      [] p = 2 -> \h93

FunctionField(r, p) == r[FunctionReg(p)] % 8

\* C11: Reading the PWM duty of a pin that is not in PWM mode.  For pin 1
\* or 2 whose function code is not 0x2 (for example after it was set
\* floating or low-output), _get_gpio_pwm_out returns 0 rather than failing.
C11_PwmReadOfNonPwmPin ==
    ( /\ op.name = "_get_gpio_pwm_out"
      /\ op.num.v \in {1, 2}
      /\ FunctionField(regs, op.num.v) # 2 )
        => ret = Returns(0)

IsGpio0LdoSet ==
    /\ op.name = "_set_gpio_ldo_voltage_out"
    /\ op.num = PyInt(0)
    /\ op.arg.type \in {"int", "float"}

Wrote(register) == \E i \in 1..Len(log) : log[i][1] = register

\* C12: GPIO0 LDO-voltage-output disable rule.  Requesting an LDO output
\* voltage <= 1.8 V on pin 0 puts pin 0 in low-output mode (function code
\* 0x5) without writing the LDO voltage register 0x91, after which
\* _get_gpio_ldo_voltage_out(0) returns 0; requesting a voltage > 1.8 V
\* stores min(15, floor((v - 1.8) / 0.1)) in the high nibble of 0x91 and
\* sets function code 0x2.
C12_Gpio0LdoDisableRule ==
    IsGpio0LdoSet =>
        /\ ret.err = NoError
        /\ IF op.arg.v <= 1800
           THEN /\ FunctionField(regs, 0) = 5
                /\ ~Wrote(\h91)
                /\ _get_gpio_ldo_voltage_out(regs, PyInt(0)) = Returns(0)
           ELSE /\ regs[\h91] \div 16
                      = (IF (op.arg.v - 1800) \div 100 > 15 THEN 15
                         ELSE (op.arg.v - 1800) \div 100)
                /\ FunctionField(regs, 0) = 2

(***************************************************************************)
(* Further claims about the rails.                                         *)
(***************************************************************************)
\* The rails' parameters as the rail table gives them: code register, top
\* code, base and step in millivolts.
CodeReg(kind, num) ==
    IF kind = "ldo" THEN \h28
    ELSE CASE num = 1 -> \h26 [] num = 2 -> \h25 [] num = 3 -> \h27

MaxCode(kind, num) ==
    IF kind = "ldo" THEN 15 ELSE IF num = 2 THEN 63 ELSE 127

Base(kind) == IF kind = "ldo" THEN 1800 ELSE 700

Step(kind) == IF kind = "ldo" THEN 100 ELSE 25

RailTop(kind, num) == Base(kind) + Step(kind) * MaxCode(kind, num)

\* The code field of a value of the rail's code register.
CodeField(kind, num, x) ==
    IF kind = "dcdc" THEN x
    ELSE IF num = 2 THEN HighNibble(x) ELSE LowNibble(x)

Clamped(kind, num) ==
    /\ ret.err = NoError
    /\ \A i \in 1..Len(log) :
          log[i][1] = CodeReg(kind, num)
              => /\ log[i][2] \in Byte
                 /\ CodeField(kind, num, log[i][2]) <= MaxCode(kind, num)
    /\ op.arg > RailTop(kind, num)
          => /\ Wrote(CodeReg(kind, num))
             /\ CodeField(kind, num, regs[CodeReg(kind, num)]) = MaxCode(kind, num)
             /\ RailEnabled(regs, kind, num)

battery_charging_enabled(r) ==
    BitAnd(_read_register8(Bus(r), _AXP192_CHARGING_CTRL1),
           _AXP192_CHARGING_CTRL1_ENABLE) # 0

\* A Python bool: True is 1, False is 0.
PyBool(x) == [type |-> "bool", v |-> IF x THEN 1 ELSE 0]

battery_charging_enabled_setter(b, enabled) ==
    IF enabled.type = "bool"
    THEN IF enabled.v # 0
         THEN _set_bit_in_register(b, _AXP192_CHARGING_CTRL1,
                                   _AXP192_CHARGING_CTRL1_ENABLE)
         ELSE _clear_bit_in_register(b, _AXP192_CHARGING_CTRL1,
                                     _AXP192_CHARGING_CTRL1_ENABLE)
    ELSE Raise(b, ValueError)

MaxChargeOps == 2

InitCharge ==
    \E c \in Byte : Start([ZeroRegs EXCEPT ![_AXP192_CHARGING_CTRL1] = c])

SetBatteryChargingEnabled ==
    \E enabled \in {PyBool(TRUE), PyBool(FALSE), PyInt(1)} :
        /\ nops < MaxChargeOps
        /\ Done("battery_charging_enabled", 0, enabled,
                battery_charging_enabled_setter(Bus(regs), enabled), NoValue)

BatteryChargeTargetVoltage ==
    /\ nops < MaxChargeOps
    /\ Read("battery_charge_target_voltage", 0,
            Returns(battery_charge_target_voltage(regs)))

NextCharge == SetBatteryChargingEnabled \/ BatteryChargeTargetVoltage

SpecCharge == InitCharge /\ [][NextCharge]_vars

\* Codes 0, 1, 2, 3 as 4.1, 4.15, 4.2, 4.36 V, in units of 0.1 mV.
TargetTable == <<41000, 41500, 42000, 43600>>

TargetOfBits65(x) == TargetTable[((x \div 32) % 4) + 1]

\* C14: Charge-target decode is table-driven.  For every content of
\* register 0x33 battery_charge_target_voltage depends only on bits 6-5 and
\* maps codes 0, 1, 2, 3 to 4.1, 4.15, 4.2, 4.36 V; toggling the
\* charging-enable bit 7 of that register through battery_charging_enabled
\* does not change the decoded target voltage.
C14_ChargeTargetTable ==
    /\ op.name = "battery_charge_target_voltage"
          => ret = Returns(TargetOfBits65(regs[\h33]))
    /\ (op.name = "battery_charging_enabled" /\ op.arg.type = "bool")
          => /\ ret.err = NoError
             /\ (regs[\h33] >= 128) = (op.arg.v = 1)
             /\ regs[\h33] % 128 = pre[\h33] % 128
             /\ battery_charging_enabled(regs) = (op.arg.v = 1)
             /\ op.prev.name = "battery_charge_target_voltage"
                   => battery_charge_target_voltage(regs) = op.prev.val

\* The target is read as 4.2 V with charging disabled, charging is then
\* enabled (bit 7 goes from 0 to 1) and the target still decodes as 4.2 V.
C14_Witness ==
    /\ op.name = "battery_charging_enabled" /\ op.arg = PyBool(TRUE)
    /\ op.prev.name = "battery_charge_target_voltage"
    /\ op.prev.val = 42000
    /\ pre[\h33] = \h40 /\ regs[\h33] = \hC0
    /\ battery_charge_target_voltage(regs) = 42000

IsModeSet ==
    /\ op.name \in {"_set_gpio_floating", "_set_gpio_output_low",
                    "_set_gpio_ldo_voltage_out", "_set_gpio_pwm_out"}
    /\ ret.err = NoError

\* The function code of the mode the call sets: floating 0x7, low output
\* 0x5, LDO voltage output or PWM output 0x2; an LDO request of at most
\* 1.8 V is the low-output mode set of C12.
ModeCode ==
    CASE op.name = "_set_gpio_floating" -> 7
      [] op.name = "_set_gpio_output_low" -> 5
      [] op.name = "_set_gpio_ldo_voltage_out" -> IF op.arg.v <= 1800 THEN 5 ELSE 2
      [] op.name = "_set_gpio_pwm_out" -> 2

\* C15 as claimed: GPIO mode set is a mask-preserve-and-merge write of the
\* function field.  For every pin 0..2, every prior content of its function
\* register (0x90, 0x92, 0x93) and every mode-set operation, after the
\* operation the 3-bit function field equals the mode's code independently
\* of the previous code, and bits 7..3 of the function register are
\* unchanged.
C15_ModeSetPreservesUpperBits ==
    IsModeSet =>
        /\ FunctionField(regs, op.num.v) = ModeCode
        /\ regs[FunctionReg(op.num.v)] \div 8 = pre[FunctionReg(op.num.v)] \div 8

\* C15 as amended: after a mode-set operation on pin 0..2 the 3-bit function
\* field equals the mode's code independently of the previous code, and
\* bits 7..3 of the function register are 0: the register is overwritten
\* with the code, not merged.
C15_ModeSetOverwritesRegister ==
    IsModeSet =>
        /\ FunctionField(regs, op.num.v) = ModeCode
        /\ regs[FunctionReg(op.num.v)] \div 8 = 0

\* Pin 1 holds 0xFD (code 5, bits 7..3 set) and is set floating: the
\* register becomes 0x07.
C15_Witness ==
    /\ op.name = "_set_gpio_floating" /\ op.num = PyInt(1)
    /\ ret.err = NoError
    /\ pre[\h92] = \hFD
    /\ regs[\h92] = \h07

\* The enable bits of register 0x12 as the register map gives them.
EnableBitNo(kind, num) ==
    IF kind = "exten" THEN 6
    ELSE IF kind = "ldo" THEN (IF num = 2 THEN 2 ELSE 3)
    ELSE CASE num = 1 -> 0 [] num = 2 -> 4 [] num = 3 -> 1

\* x with bit n cleared.
WithoutBit(x, n) == x - ((x \div Pow2(n)) % 2) * Pow2(n)

OnlyBitChanged(n) == WithoutBit(regs[\h12], n) = WithoutBit(pre[\h12], n)

OtherRailsUnchanged(kind, num) ==
    /\ \A n \in 1..3 :
          (kind # "dcdc" \/ n # num)
              => __read_dcdcx_setpoint(regs, n) = __read_dcdcx_setpoint(pre, n)
    /\ \A n \in 2..3 :
          (kind # "ldo" \/ n # num)
              => __read_ldo23_setpoint(regs, n) = __read_ldo23_setpoint(pre, n)
    /\ kind # "exten" => _exten(regs) = _exten(pre)

\* C16: Enable-bit independence in register 0x12.  In any sequential run
\* of rail setters and EXTEN setters, setting or clearing EXTEN changes only
\* bit 6 of register 0x12, and enabling or disabling a rail changes only
\* that rail's own enable bit (bit 0 DCDC1, bit 1 DCDC3, bit 2 LDO2, bit 3
\* LDO3, bit 4 DCDC2); all other bits of 0x12, and hence every other rail's
\* read-back setpoint and the EXTEN state, are unchanged.
C16_EnableBitIndependence ==
    /\ op.name = "exten" =>
          /\ ret.err = NoError
          /\ OnlyBitChanged(6)
          /\ Bit(regs[\h12], 6) = op.arg
          /\ OtherRailsUnchanged("exten", 0)
    /\ IsDcdcSet =>
          /\ OnlyBitChanged(EnableBitNo("dcdc", op.num))
          /\ OtherRailsUnchanged("dcdc", op.num)
    /\ IsLdoSet =>
          /\ OnlyBitChanged(EnableBitNo("ldo", op.num))
          /\ OtherRailsUnchanged("ldo", op.num)

\* With EXTEN off and every rail off, DCDC3 is enabled and then EXTEN is
\* set: register 0x12 goes 0x00, 0x02, 0x42 and DCDC3 keeps its setpoint.
C16_Witness ==
    /\ op.name = "exten" /\ op.arg = TRUE
    /\ op.prev.name = "dcdc_setpoint"
    /\ pre[\h12] = \h02
    /\ regs[\h12] = \h42
    /\ __read_dcdcx_setpoint(regs, 3) = 1025

(***************************************************************************)
(* Bus writes one at a time.  A setter call is in flight from its first    *)
(* statement to its return; each of its register writes is a step of its   *)
(* own, so the states between two writes of one call are states of the     *)
(* device.  Nothing else touches the device during the call, so the        *)
(* values the call reads and writes are those the setter computes from the *)
(* registers it starts on.  The call in flight is threads[1]: its name and *)
(* arguments, the writes still to issue, the registers it will leave and   *)
(* its outcome.                                                            *)
(***************************************************************************)
MaxOrderOps == 1

OrderDcdcVolts == {0, 1025, 5000}

OrderLdoVolts == {0, 2500, 5000}

OrderInit ==
    { [ZeroRegs EXCEPT ![_AXP192_DCDC13_LDO23_CTRL] = c,
                       ![_AXP192_DCDC1_OUT_VOLTAGE] = s[1],
                       ![_AXP192_DCDC2_OUT_VOLTAGE] = s[1],
                       ![_AXP192_DCDC3_OUT_VOLTAGE] = s[1],
                       ![_AXP192_LDO23_OUT_VOLTAGE] = s[2],
                       ![_AXP192_GPIO0_FUNCTION] = f,
                       ![_AXP192_GPIO1_FUNCTION] = f,
                       ![_AXP192_GPIO2_FUNCTION] = f,
                       ![_AXP192_GPIO0_LDO_VOLTAGE] = s[2],
                       ![_AXP192_PWM1_DUTY_RATIO_Y1] = s[1],
                       ![_AXP192_PWM2_DUTY_RATIO_Y1] = s[1],
                       ![_AXP192_PWM1_DUTY_RATIO_Y1 + 1] = s[2],
                       ![_AXP192_PWM2_DUTY_RATIO_Y1 + 1] = s[2]] :
        c \in {\h00, \h5F}, s \in StaleCodes, f \in {\h00, \h02} }

InitOrder == \E r \in OrderInit : Start(r)

InFlight == threads # NoThreads

\* The call starts: b is the bus state the setter computes from regs.
BeginCall(name, num, arg, b) ==
    /\ ~InFlight
    /\ nops < MaxOrderOps
    /\ threads' = << [name |-> name, num |-> num, arg |-> arg,
                      pending |-> b.log, after |-> b.regs, err |-> b.err] >>
    /\ pre' = regs
    /\ log' = <<>>
    /\ UNCHANGED <<regs, op, ret, nops>>

BeginDcdcSetpoint ==
    \E num \in 1..3 : \E voltage \in OrderDcdcVolts : \E loss \in FloatLoss :
        BeginCall("dcdc_setpoint", num, voltage,
                  __write_dcdcx_setpoint(Bus(regs), num, voltage, loss))

BeginLdoSetpoint ==
    \E num \in 2..3 : \E voltage \in OrderLdoVolts : \E loss \in FloatLoss :
        BeginCall("ldo_setpoint", num, voltage,
                  __write_ldo23_setpoint(Bus(regs), num, voltage, loss))

BeginGpioLdoVoltageOut ==
    \E q \in Gpio0LdoRequests :
        BeginCall("_set_gpio_ldo_voltage_out", 0, q[1].v,
                  _set_gpio_ldo_voltage_out(Bus(regs), PyInt(0), q[1], q[2]))

BeginGpioPwmOut ==
    \E gpio_num \in 1..2 : \E duty_cycle \in ModeDuties :
        BeginCall("_set_gpio_pwm_out", gpio_num, duty_cycle.v,
                  _set_gpio_pwm_out(Bus(regs), PyInt(gpio_num), duty_cycle))

\* self._device.write(out_buf): the next write of the call reaches the device.
BusWrite ==
    /\ InFlight
    /\ threads[1].pending # <<>>
    /\ LET w == Head(threads[1].pending)
       IN  /\ regs' = DeviceStore(regs, w[1], w[2])
           /\ log' = Append(log, w)
    /\ threads' = [threads EXCEPT ![1].pending = Tail(@)]
    /\ UNCHANGED <<pre, op, ret, nops>>

\* The call returns (or raises) once its writes are issued.
EndCall ==
    /\ InFlight
    /\ threads[1].pending = <<>>
    /\ op' = [name |-> threads[1].name, num |-> threads[1].num,
              arg |-> threads[1].arg,
              prev |-> [name |-> op.name, val |-> ret.val]]
    /\ ret' = [err |-> threads[1].err, val |-> NoValue]
    /\ nops' = nops + 1
    /\ threads' = NoThreads
    /\ UNCHANGED <<regs, pre, log>>

NextOrder ==
    \/ BeginDcdcSetpoint
    \/ BeginLdoSetpoint
    \/ BeginGpioLdoVoltageOut
    \/ BeginGpioPwmOut
    \/ BusWrite
    \/ EndCall

SpecOrder == InitOrder /\ [][NextOrder]_vars

\* The kind of rail a call in flight sets.
RailKind(name) == IF name = "dcdc_setpoint" THEN "dcdc" ELSE "ldo"

RailReadBack(r, kind, num) ==
    IF kind = "dcdc" THEN __read_dcdcx_setpoint(r, num)
    ELSE __read_ldo23_setpoint(r, num)

\* Position of the first write to the register in the writes issued so far;
\* 0 if there is none.
FirstWrite(register) ==
    IF Wrote(register)
    THEN CHOOSE i \in 1..Len(log) :
            /\ log[i][1] = register
            /\ \A j \in 1..(i - 1) : log[j][1] # register
    ELSE 0

\* The register written before every write to the other one.
WrittenBefore(first, then) ==
    Wrote(then) => (Wrote(first) /\ FirstWrite(first) < FirstWrite(then))

\* A rail that was off and that the call switches on is, at every point of
\* the call, off or on with the setpoint the call leaves.
RailSwitchOnOrder(c) ==
    LET kind == RailKind(c.name)
    IN  (~RailEnabled(pre, kind, c.num) /\ RailEnabled(c.after, kind, c.num))
            => /\ WrittenBefore(CodeReg(kind, c.num), \h12)
               /\ \/ ~RailEnabled(regs, kind, c.num)
                  \/ RailReadBack(regs, kind, c.num)
                         = RailReadBack(c.after, kind, c.num)

Gpio0LdoSwitchOnOrder(c) ==
    (FunctionField(pre, 0) # 2 /\ FunctionField(c.after, 0) = 2)
        => /\ WrittenBefore(\h91, \h90)
           /\ \/ FunctionField(regs, 0) # 2
              \/ regs[\h91] = c.after[\h91]

PwmSwitchOnOrder(c) ==
    LET prescaler == IF c.num = 1 THEN \h99 ELSE \h9C
    IN  (FunctionField(pre, c.num) # 2 /\ FunctionField(c.after, c.num) = 2)
            => /\ WrittenBefore(prescaler, FunctionReg(c.num))
               /\ WrittenBefore(prescaler + 1, FunctionReg(c.num))
               /\ \/ FunctionField(regs, c.num) # 2
                  \/ /\ regs[prescaler] = \hFF
                     /\ regs[prescaler + 1] = c.arg

\* C17: Write ordering when switching an output on.  In a rail setter with
\* a positive delta the voltage-code write happens before the enable-bit
\* write, in the GPIO0 LDO setter the voltage register 0x91 is written
\* before the function code 0x2, and in the PWM setter the prescaler and
\* the duty are written before the function code 0x2; so in every
\* intermediate bus state of an operation that switches on an output that
\* was off, the output is either still off or already on with the newly
\* requested value, never on with the previous stale code.
C17_SwitchOnWriteOrder ==
    InFlight =>
        LET c == threads[1]
        IN  CASE c.name \in {"dcdc_setpoint", "ldo_setpoint"} -> RailSwitchOnOrder(c)
              [] c.name = "_set_gpio_ldo_voltage_out" -> Gpio0LdoSwitchOnOrder(c)
              [] c.name = "_set_gpio_pwm_out" -> PwmSwitchOnOrder(c)

\* Between the two writes of a DCDC1 call: the rail was off over the stale
\* code 0xFF, the new code 0x0D is already stored and the enable bit is not
\* yet set.
C17_Witness ==
    /\ InFlight
    /\ threads[1].name = "dcdc_setpoint" /\ threads[1].num = 1
    /\ threads[1].arg = 1025
    /\ pre[\h12] = 0 /\ pre[\h26] = \hFF
    /\ Len(log) = 1 /\ Len(threads[1].pending) = 1
    /\ regs[\h26] = \h0D /\ regs[\h12] = 0

\* The three mode predicates of pin 0..2 on the registers r: floating, low
\* output, and LDO voltage output (pin 0) or PWM output (pins 1, 2).
ModePredicates(r, p) ==
    << _is_gpio_floating(r, PyInt(p)),
       _is_gpio_output_low(r, PyInt(p)),
       IF p = 0 THEN _is_gpio_ldo_voltage_out(r, PyInt(p))
       ELSE _is_gpio_pwm_out(r, PyInt(p)) >>

OtherPinsKeepMode(p) ==
    \A q \in 0..2 : q # p => ModePredicates(regs, q) = ModePredicates(pre, q)

\* C18 as claimed: GPIO mode exclusivity.  For every pin 0..2, after any
\* sequence of successful mode-set operations on it (floating, low-output,
\* LDO-voltage-output with any voltage for pin 0, PWM-output with any duty
\* for pins 1-2), exactly one mode predicate of the pin is true, namely the
\* one of the last mode set.
C18_ModeOfLastSetCall ==
    IsModeSet =>
        /\ ModePredicates(regs, op.num.v)
              = << Returns(op.name = "_set_gpio_floating"),
                   Returns(op.name = "_set_gpio_output_low"),
                   Returns(op.name \in {"_set_gpio_ldo_voltage_out",
                                        "_set_gpio_pwm_out"}) >>
        /\ OtherPinsKeepMode(op.num.v)

\* C18 as amended: as claimed, with an LDO-voltage-output request of at
\* most 1.8 V counted as a low-output mode set (C12): after it the
\* low-output predicate is the one that is true.
C18_ModeExclusivity ==
    IsModeSet =>
        /\ ModePredicates(regs, op.num.v)
              = << Returns(ModeCode = 7), Returns(ModeCode = 5),
                   Returns(ModeCode = 2) >>
        /\ OtherPinsKeepMode(op.num.v)

\* Pin 1 is set to PWM output and then to low output: only the low-output
\* predicate is true.
C18_Witness ==
    /\ op.name = "_set_gpio_output_low" /\ op.num = PyInt(1)
    /\ op.prev.name = "_set_gpio_pwm_out"
    /\ pre[\h92] = \h02
    /\ ModePredicates(regs, 1) = <<Returns(FALSE), Returns(TRUE), Returns(FALSE)>>

(***************************************************************************)
(* The power key with the device latching presses at any moment.  A call   *)
(* of power_key_was_pressed is two bus transactions, the read of the IRQ   *)
(* status register and, if a key bit was read, the write-back; the device  *)
(* may latch a press before, between and after them.  The call in flight   *)
(* is threads[1], holding the value it read.                               *)
(***************************************************************************)
MaxLatchOps == 2

InitLatch ==
    \E s \in {\h00, \h01, \h02, \h03, \h40, \h43} :
        Start([ZeroRegs EXCEPT ![_AXP192_IRQ_3_STATUS] = s])

\* reg_val = self._read_register8(_AXP192_IRQ_3_STATUS)
LatchRead ==
    /\ ~InFlight
    /\ nops < MaxLatchOps
    /\ threads' = << [reg_val |-> _read_register8(Bus(regs), _AXP192_IRQ_3_STATUS)] >>
    /\ UNCHANGED <<regs, pre, op, ret, log, nops>>

\* The rest of the call: the write-back if a key bit was read, and the return
\* of the bits read.
LatchWriteBack ==
    /\ InFlight
    /\ LET reg_val == threads[1].reg_val
           short_press == KeyBits(reg_val)[1]
           long_press == KeyBits(reg_val)[2]
           b == IF short_press \/ long_press
                THEN _write_register8(Bus(regs), _AXP192_IRQ_3_STATUS,
                         BitOr(_AXP192_IRQ_3_STATUS_PEK_SHORT_PRESS,
                               _AXP192_IRQ_3_STATUS_PEK_LONG_PRESS))
                ELSE Bus(regs)
       IN  /\ regs' = b.regs
           /\ pre' = regs
           /\ op' = [name |-> "power_key_was_pressed", num |-> 0, arg |-> 0,
                     prev |-> [name |-> op.name, val |-> ret.val]]
           /\ ret' = [err |-> b.err, val |-> <<short_press, long_press>>]
           /\ log' = b.log
    /\ nops' = nops + 1
    /\ threads' = NoThreads

\* The device latches a press: short (2), long (1) or both.
LatchPress ==
    \E bits \in 1..3 :
        /\ regs' = [regs EXCEPT ![_AXP192_IRQ_3_STATUS] = BitOr(@, bits)]
        /\ UNCHANGED <<pre, op, ret, log, nops, threads>>

NextLatch == LatchRead \/ LatchWriteBack \/ LatchPress

SpecLatch == InitLatch /\ [][NextLatch]_vars

\* C19: No power-key event is lost.  With the device free to latch a
\* short-press or long-press bit in register 0x46 at any moment, including
\* between the read and the write-back of power_key_was_pressed, a latched
\* bit is cleared by the driver only in a call that returned that bit as
\* true; a call that read both bits clear issues no write to register 0x46.
\* pre holds the registers just before the call's last transaction.
C19_NoKeyEventLost ==
    (IsKeyCall /\ ~InFlight) =>
        /\ (Bit(pre[\h46], 1) /\ ~Bit(regs[\h46], 1)) => ret.val[1]
        /\ (Bit(pre[\h46], 0) /\ ~Bit(regs[\h46], 0)) => ret.val[2]
        /\ ret.val = <<FALSE, FALSE>> => ~Wrote(\h46)

====
